---- MODULE Spec2Model ----
(***************************************************************************)
(* TransportApp (src/transport_ro.py): a window with two spin boxes, three *)
(* editable tables (costs, supplies, demands), a read-only result table, a *)
(* result label and a "Résoudre" button.  The button runs solve_transport, *)
(* which reads the tables, builds the transportation linear program        *)
(*     minimise    sum couts[i][j] * x[i,j]                                *)
(*     subject to  sum_j x[i,j] <= offres[i]     for every source i        *)
(*                 sum_i x[i,j] >= demandes[j]   for every destination j   *)
(*                 x[i,j] >= 0                                             *)
(* hands it to the LP solver and shows either the optimum or a message box.*)
(*                                                                         *)
(* Python indexes rows and columns from 0, the model from 1.  Numbers are  *)
(* integers: every text the model types is an integer numeral, and the     *)
(* constraint matrix of a transportation program is totally unimodular, so *)
(* the program's optimum is attained at integer plans.                     *)
(***************************************************************************)
EXTENDS Integers, Sequences, FiniteSets, TLC

VARIABLES
    n_sources_spin,   \* self.n_sources_spin.value()
    n_dest_spin,      \* self.n_dest_spin.value()
    cost_table,       \* self.cost_table: rows of cells
    offre_table,      \* self.offre_table: n_sources rows of one cell
    demande_table,    \* self.demande_table: one row of n_dest cells
    result_table,     \* self.result_table
    result_label,     \* self.result_label.text()
    last,             \* what the most recent solve_transport call did
    fresh             \* no table was edited or resized since that call

vars == <<n_sources_spin, n_dest_spin, cost_table, offre_table, demande_table,
          result_table, result_label, last, fresh>>

----------------------------------------------------------------------------
(* Bounds of the exploration *)

\* most input cells that hold an item at the same time while the window is driven
MaxFilled == 1
\* largest supply or demand of the instances solve_transport is applied to directly
MaxQty == 2
\* largest cost of those instances
MaxCost == 1
\* largest magnitude of the numerals float() is tabulated for
MaxNumeral == 30

(* Program constants *)
InitSources == 3
InitDest == 3
MinSpin == 1

\* While the window is driven, the spin boxes are moved between their minimum
\* and the size the window opens with (QSpinBox itself goes on to 99).
MaxSources == InitSources
MaxDest == InitDest

----------------------------------------------------------------------------
(* Cells and texts *)

\* table.item(i, j) is None
NoItem == <<>>
\* a QTableWidgetItem holding text t
Item(t) == <<t>>

\* f"{v:.2f}" of an integer-valued v
Format2f(v) == ToString(v) \o ".00"

\* the texts float() accepts, with their values: integer numerals and numerals
\* with two zero decimals; float() of any other text raises ValueError
FloatTable ==
    LET D == (0 - MaxNumeral)..MaxNumeral
        T == {ToString(k) : k \in D} \cup {Format2f(k) : k \in D}
    IN  [t \in T |-> CHOOSE k \in D : t = ToString(k) \/ t = Format2f(k)]

\* item and item.text()
HasText(c) == c # NoItem /\ c[1] # ""

\* float(item.text()) raises
CellRaises(c) == HasText(c) /\ c[1] \notin DOMAIN FloatTable

\* float(item.text()) if item and item.text() else 0
CellValue(c) == IF HasText(c) THEN FloatTable[c[1]] ELSE 0

\* table.rowCount(), table.columnCount()
rowCount(table) == Len(table)
columnCount(table) == IF Len(table) = 0 THEN 0 ELSE Len(table[1])

\* table.item(i, j): None outside the table
item(table, i, j) ==
    IF i \in 1..rowCount(table) /\ j \in 1..columnCount(table)
    THEN table[i][j] ELSE NoItem

\* _read_table raises out of float()
read_raises(table, rows, cols) ==
    \E i \in 1..rows, j \in 1..cols : CellRaises(item(table, i, j))

\* _read_table(table, rows, cols)
read_table(table, rows, cols) ==
    [i \in 1..rows |-> [j \in 1..cols |-> CellValue(item(table, i, j))]]

\* table.setRowCount(rows); table.setColumnCount(cols): cells kept where they
\* stay inside, dropped outside, new cells empty
setup_table(table, rows, cols) ==
    [i \in 1..rows |-> [j \in 1..cols |-> item(table, i, j)]]

----------------------------------------------------------------------------
(* The linear program solve_transport builds, and the solver's answer *)

\* quicksum of f[1..k]
RECURSIVE quicksum(_, _)
quicksum(f, k) == IF k = 0 THEN 0 ELSE f[k] + quicksum(f, k - 1)

Abs(v) == IF v < 0 THEN 0 - v ELSE v

RECURSIVE MaxOver(_, _)
MaxOver(f, k) == IF k = 0 THEN 0
                 ELSE LET r == MaxOver(f, k - 1) IN IF Abs(f[k]) > r THEN Abs(f[k]) ELSE r

\* m.addVar(vtype=GRB.CONTINUOUS): lower bound 0, no upper bound.  Row i's
\* constraint keeps every x[i,j] at or below offres[i], so the values up to the
\* largest right-hand side G are all a feasible plan can use.
VarDomain_free(G) == (0 - G)..G
VarDomain(G) == 0..G

\* m.addConstr(quicksum(x[i, j] for j in range(n_dest)) <= offres[i])
SupplyConstr(row, n_dest, offre) == quicksum(row, n_dest) <= offre

DemandConstr_le(x, n_sources, j, demande) ==
    quicksum([i \in 1..n_sources |-> x[i][j]], n_sources) <= demande

\* m.addConstr(quicksum(x[i, j] for i in range(n_sources)) >= demandes[j])
DemandConstr(x, n_sources, j, demande) ==
    quicksum([i \in 1..n_sources |-> x[i][j]], n_sources) >= demande

\* quicksum(couts[i][j] * x[i, j] for i in range(n_sources) for j in range(n_dest))
Objective(couts, x, n_sources, n_dest) ==
    quicksum([i \in 1..n_sources |->
                quicksum([j \in 1..n_dest |-> couts[i][j] * x[i][j]], n_dest)],
             n_sources)

\* the rows 1..i of the plans that satisfy rows 1..i of the supply constraints
RECURSIVE RowsUpTo(_, _, _, _)
RowsUpTo(i, n_dest, offres, G) ==
    IF i = 0 THEN {<<>>}
    ELSE LET R == {r \in [1..n_dest -> VarDomain(G)] : SupplyConstr(r, n_dest, offres[i])}
         IN  {Append(p, r) : p \in RowsUpTo(i - 1, n_dest, offres, G), r \in R}

\* the plans that satisfy every constraint of the model
FeasiblePlans(n_sources, n_dest, offres, demandes) ==
    LET G == LET a == MaxOver(offres, n_sources)
                 b == MaxOver(demandes, n_dest)
             IN  IF a > b THEN a ELSE b
    IN  {x \in RowsUpTo(n_sources, n_dest, offres, G) :
            \A j \in 1..n_dest : DemandConstr(x, n_sources, j, demandes[j])}

Better_max(a, b) == a > b

\* GRB.MINIMIZE: the better of two objective values
Better(a, b) == a < b

\* The solver's answer for the model built from couts, offres and demandes:
\* the status, the optimal objective value and the optimal plans (the solver
\* returns one of them; which one is its choice).  The variables are bounded
\* by the supply rows, so the program is never unbounded: it is optimal when
\* some plan is feasible and infeasible otherwise.
lp_answer(couts, offres, demandes, n_sources, n_dest) ==
    LET Valued == {<<Objective(couts, x, n_sources, n_dest), x>> :
                    x \in FeasiblePlans(n_sources, n_dest, offres, demandes)}
        Answer(P) ==
            IF P = {} THEN [status |-> "INFEASIBLE", objVal |-> 0, plans |-> {}]
            ELSE LET val == CHOOSE v \in {p[1] : p \in P} : \A q \in P : ~Better(q[1], v)
                 IN  [status |-> "OPTIMAL", objVal |-> val,
                      plans |-> {p[2] : p \in {q \in P : q[1] = val}}]
    IN  CHOOSE r \in {Answer(P) : P \in {Valued}} : TRUE

\* a model object kept from one call to the next: once infeasible, it stays so
optimize_kept(couts, offres, demandes, n_sources, n_dest) ==
    IF last.status = "INFEASIBLE"
    THEN [status |-> "INFEASIBLE", objVal |-> 0, plans |-> {}]
    ELSE lp_answer(couts, offres, demandes, n_sources, n_dest)

\* m = Model("Transport"), built from this call's reads alone, then m.optimize()
optimize(couts, offres, demandes, n_sources, n_dest) ==
    lp_answer(couts, offres, demandes, n_sources, n_dest)

----------------------------------------------------------------------------
(* The window *)

\* self.result_label = QLabel("Coût total minimal : "), written in ASCII
LabelPrefix == "Cout total minimal : "

\* no solve_transport call yet
NoCall == [status |-> "none", optimized |-> FALSE, dialog |-> "none", total_cost |-> NoItem]

\* what solve_transport reads from the tables as they stand
NSources == rowCount(cost_table)
NDest == columnCount(cost_table)
ReadRaises ==
    \/ read_raises(cost_table, NSources, NDest)
    \/ read_raises(offre_table, NSources, 1)
    \/ read_raises(demande_table, 1, NDest)
Couts == read_table(cost_table, NSources, NDest)
Offres == [i \in 1..NSources |-> read_table(offre_table, NSources, 1)[i][1]]
Demandes == read_table(demande_table, 1, NDest)[1]

\* TransportApp.__init__: spin boxes at 3, update_tables() on the new tables
Init ==
    /\ n_sources_spin = InitSources
    /\ n_dest_spin = InitDest
    /\ cost_table = setup_table(<<>>, InitSources, InitDest)
    /\ offre_table = setup_table(<<>>, InitSources, 1)
    /\ demande_table = setup_table(<<>>, 1, InitDest)
    /\ result_table = setup_table(<<>>, InitSources, InitDest)
    /\ result_label = LabelPrefix
    /\ last = NoCall
    /\ fresh = FALSE

\* update_tables, run by valueChanged of either spin box
update_tables(n_sources, n_dest) ==
    /\ cost_table' = setup_table(cost_table, n_sources, n_dest)
    /\ offre_table' = setup_table(offre_table, n_sources, 1)
    /\ demande_table' = setup_table(demande_table, 1, n_dest)
    /\ result_table' = setup_table(result_table, n_sources, n_dest)

\* the user moves the sources spin box to v
SetSources ==
    \E v \in MinSpin..MaxSources :
        /\ v # n_sources_spin
        /\ n_sources_spin' = v
        /\ update_tables(v, n_dest_spin)
        /\ fresh' = FALSE
        /\ UNCHANGED <<n_dest_spin, result_label, last>>

\* the user moves the destinations spin box to v
SetDest ==
    \E v \in MinSpin..MaxDest :
        /\ v # n_dest_spin
        /\ n_dest_spin' = v
        /\ update_tables(n_sources_spin, v)
        /\ fresh' = FALSE
        /\ UNCHANGED <<n_sources_spin, result_label, last>>

\* the texts the user types while the window is driven: a numeral, a negative
\* numeral, a word
Typed == {"1", "-1", "abc"}

\* the number of input cells that hold an item
Filled ==
    Cardinality({<<i, j>> \in (1..rowCount(cost_table)) \X (1..columnCount(cost_table)) :
                    cost_table[i][j] # NoItem})
    + Cardinality({i \in 1..rowCount(offre_table) : offre_table[i][1] # NoItem})
    + Cardinality({j \in 1..columnCount(demande_table) : demande_table[1][j] # NoItem})

\* the user types t into cell (i, j) of an editable table
\* (QTableWidget.AllEditTriggers)
EditCost ==
    \E i \in 1..rowCount(cost_table), j \in 1..columnCount(cost_table), t \in Typed :
        /\ cost_table[i][j] # Item(t)
        /\ cost_table[i][j] # NoItem \/ Filled < MaxFilled
        /\ cost_table' = [cost_table EXCEPT ![i][j] = Item(t)]
        /\ fresh' = FALSE
        /\ UNCHANGED <<n_sources_spin, n_dest_spin, offre_table, demande_table,
                       result_table, result_label, last>>

EditOffre ==
    \E i \in 1..rowCount(offre_table), t \in Typed :
        /\ offre_table[i][1] # Item(t)
        /\ offre_table[i][1] # NoItem \/ Filled < MaxFilled
        /\ offre_table' = [offre_table EXCEPT ![i][1] = Item(t)]
        /\ fresh' = FALSE
        /\ UNCHANGED <<n_sources_spin, n_dest_spin, cost_table, demande_table,
                       result_table, result_label, last>>

EditDemande ==
    \E j \in 1..columnCount(demande_table), t \in Typed :
        /\ demande_table[1][j] # Item(t)
        /\ demande_table[1][j] # NoItem \/ Filled < MaxFilled
        /\ demande_table' = [demande_table EXCEPT ![1][j] = Item(t)]
        /\ fresh' = FALSE
        /\ UNCHANGED <<n_sources_spin, n_dest_spin, cost_table, offre_table,
                       result_table, result_label, last>>

\* result_table.setItem(i, j, QTableWidgetItem(f"{x[i, j].x:.2f}")) for every cell
show_plan(table, x, n_sources, n_dest) ==
    [i \in 1..rowCount(table) |-> [j \in 1..columnCount(table) |->
        IF i <= n_sources /\ j <= n_dest THEN Item(Format2f(x[i][j])) ELSE table[i][j]]]

\* the call ends having done `call`
Record(call) ==
    /\ last' = call
    /\ fresh' = TRUE

\* solve_transport, the slot of the "Résoudre" button
solve_transport ==
    /\ UNCHANGED <<n_sources_spin, n_dest_spin, cost_table, offre_table, demande_table>>
    /\ IF ReadRaises
       THEN \* except Exception as e: QMessageBox.critical
            /\ Record([status |-> "ValueError", optimized |-> FALSE,
                       dialog |-> "critical", total_cost |-> NoItem])
            /\ UNCHANGED <<result_table, result_label>>
       ELSE \* couts, offres, demandes = the three reads; m = the optimized model
            \E couts \in {Couts}, offres \in {Offres}, demandes \in {Demandes} :
            \E m \in {optimize(couts, offres, demandes, NSources, NDest)} :
                IF m.status = "OPTIMAL"
                THEN \E x \in m.plans :
                        /\ result_label' = LabelPrefix \o Format2f(m.objVal)
                        /\ result_table' = show_plan(result_table, x, NSources, NDest)
                        /\ Record([status |-> "OPTIMAL", optimized |-> TRUE,
                                   dialog |-> "none",
                                   total_cost |-> Item(Format2f(m.objVal))])
                ELSE \* QMessageBox.warning: "Aucune solution optimale trouvée."
                     /\ Record([status |-> m.status, optimized |-> TRUE,
                                dialog |-> "warning", total_cost |-> NoItem])
                     /\ UNCHANGED <<result_table, result_label>>

Next ==
    \/ SetSources
    \/ SetDest
    \/ EditCost
    \/ EditOffre
    \/ EditDemande
    \/ solve_transport

Spec == Init /\ [][Next]_vars

----------------------------------------------------------------------------
(* solve_transport applied to instances: the window after the user has set *)
(* the spin boxes and typed an instance, before the first solve            *)

\* the table shapes of the instances
Shapes == {<<1, 1>>, <<1, 2>>, <<2, 1>>, <<2, 2>>}

CostCells == {NoItem} \cup {Item(ToString(k)) : k \in 1..MaxCost}
QtyCells == {NoItem} \cup {Item(ToString(k)) : k \in 1..MaxQty}

\* at most one cell of an instance holds the negative numeral: none, or the
\* first cell of table t (1 costs, 2 supplies, 3 demands); the instances are
\* closed under reordering sources and destinations, so the first cell stands
\* for any
NegativeAt == {<<0, 0, 0>>, <<1, 1, 1>>, <<2, 1, 1>>, <<3, 1, 1>>}

WithNegative(table, t, s) ==
    IF s[1] = t THEN [table EXCEPT ![s[2]][s[3]] = Item("-1")] ELSE table

\* the window showing n sources and m destinations, the tables as given,
\* nothing solved yet
Shown(n, m, c, o, d) ==
    /\ n_sources_spin = n
    /\ n_dest_spin = m
    /\ cost_table = c
    /\ offre_table = o
    /\ demande_table = d
    /\ result_table = setup_table(<<>>, n, m)
    /\ result_label = LabelPrefix
    /\ last = NoCall
    /\ fresh = FALSE

\* supply (20, 30), demand (25, 25), costs [[8, 6], [4, 9]]
ExampleCosts == <<<<Item("8"), Item("6")>>, <<Item("4"), Item("9")>>>>
ExampleOffres == <<<<Item("20")>>, <<Item("30")>>>>
ExampleDemandes == <<<<Item("25"), Item("25")>>>>

InitSolve ==
    \/ \E sh \in Shapes :
         \E c \in [1..sh[1] -> [1..sh[2] -> CostCells]],
            o \in [1..sh[1] -> [1..1 -> QtyCells]],
            d \in [1..1 -> [1..sh[2] -> QtyCells]],
            s \in NegativeAt :
              Shown(sh[1], sh[2], WithNegative(c, 1, s), WithNegative(o, 2, s),
                    WithNegative(d, 3, s))
    \/ Shown(2, 2, ExampleCosts, ExampleOffres, ExampleDemandes)

\* the first press of the button on the instance (repeated presses are part
\* of Spec)
NextSolve == ~fresh /\ solve_transport

SpecSolve == InitSolve /\ [][NextSolve]_vars

----------------------------------------------------------------------------
(* Properties.  They speak of a call through the tables it read, so of the *)
(* states in which no table has changed since the call.                    *)

\* the most recent call ran on the tables as they stand
Called == fresh /\ last.status # "none"
\* ... and showed a solution
Solved == fresh /\ last.status = "OPTIMAL"

\* the shipment matrix shown: result_table read back as numbers
Allocation == read_table(result_table, NSources, NDest)

Shipped(a, i) == quicksum(a[i], NDest)
Received(a, j) == quicksum([i \in 1..NSources |-> a[i][j]], NSources)
TotalSupply == quicksum(Offres, NSources)
TotalDemand == quicksum(Demandes, NDest)
Balanced == TotalSupply = TotalDemand
NonNegative ==
    /\ \A i \in 1..NSources, j \in 1..NDest : Couts[i][j] >= 0
    /\ \A i \in 1..NSources : Offres[i] >= 0
    /\ \A j \in 1..NDest : Demandes[j] >= 0
HasNegative == ~ReadRaises /\ ~NonNegative

\* every shipment plan that satisfies all demand without exceeding any supply,
\* listed cell by cell
ShipmentPlans(supply, demand) ==
    LET top == MaxOver(supply, NSources)
    IN  {x \in [1..NSources -> [1..NDest -> 0..top]] :
            /\ \A i \in 1..NSources : quicksum(x[i], NDest) <= supply[i]
            /\ \A j \in 1..NDest :
                  quicksum([i \in 1..NSources |-> x[i][j]], NSources) >= demand[j]}

PlanCost(cost, x) ==
    quicksum([i \in 1..NSources |->
                quicksum([j \in 1..NDest |-> cost[i][j] * x[i][j]], NDest)], NSources)

\* the costs of those plans for the tables as they stand
PlanCosts ==
    UNION {{PlanCost(c, x) : x \in ShipmentPlans(o, d)} :
              c \in {Couts}, o \in {Offres}, d \in {Demandes}}

Least(S) == CHOOSE v \in S : \A w \in S : v <= w

IsExample ==
    /\ cost_table = ExampleCosts
    /\ offre_table = ExampleOffres
    /\ demande_table = ExampleDemandes

\* C1: after a solve that showed a solution for a balanced instance with no
\* negative value, the shipments out of every source add up to its supply and
\* the shipments into every destination add up to its demand.
C1_BalancedMeetsSupplyAndDemand ==
    (Solved /\ NonNegative /\ Balanced) =>
        \A a \in {Allocation} :
            /\ \A i \in 1..NSources : Shipped(a, i) = Offres[i]
            /\ \A j \in 1..NDest : Received(a, j) = Demandes[j]

\* a balanced two-by-two instance with both sources supplying, solved
C1_Witness ==
    /\ Solved /\ NonNegative /\ Balanced
    /\ NSources = 2 /\ NDest = 2
    /\ Offres[1] > 0 /\ Offres[2] > 0 /\ Demandes[1] > 0 /\ Demandes[2] > 0
    /\ TotalSupply >= 3

\* C2: after a solve that showed a solution, the total cost shown is the least
\* cost over all shipment plans that satisfy all demand without exceeding any
\* supply; for supply (20, 30), demand (25, 25), costs [[8, 6], [4, 9]] the
\* enumeration gives 265.
C2_TotalCostIsMinimum ==
    Solved =>
        \A least \in {Least(PlanCosts)} :
            /\ result_label = LabelPrefix \o Format2f(least)
            /\ IsExample => least = 265 /\ result_label = LabelPrefix \o "265.00"

\* the example instance, solved
C2_Witness == Solved /\ IsExample

\* C3: after a solve that showed a solution, every entry of the shipment
\* matrix shown is a number that is at least 0.
C3_AllocationNonNegative ==
    Solved =>
        /\ \A i \in 1..NSources, j \in 1..NDest : HasText(item(result_table, i, j))
        /\ ~read_raises(result_table, NSources, NDest)
        /\ \A a \in {Allocation} : \A i \in 1..NSources, j \in 1..NDest : a[i][j] >= 0

\* a solution with a positive shipment along a negative cost
C3_Witness ==
    /\ Solved
    /\ \E i \in 1..NSources, j \in 1..NDest : Couts[i][j] < 0 /\ Allocation[i][j] > 0

\* C4 as stated: a solve on an instance with no negative value whose total
\* supply differs from its total demand, in either direction, shows a solution.
C4_UnbalancedIsSolved ==
    (Called /\ ~ReadRaises /\ NonNegative /\ ~Balanced) => last.status = "OPTIMAL"

\* C5 as stated: after a solve that showed a solution for an instance whose
\* total supply exceeds its total demand, the units shipped into each
\* destination equal its demand, and the total cost shown is the cost of those
\* units.
C5_SurplusShipsOnlyDemand ==
    (Solved /\ TotalSupply > TotalDemand) =>
        \A a \in {Allocation} :
            /\ \A j \in 1..NDest : Received(a, j) = Demandes[j]
            /\ result_label = LabelPrefix \o Format2f(PlanCost(Couts, a))

\* C6 as stated: a solve on an instance holding a negative cost, supply or
\* demand fails before the optimizer runs and shows no allocation and no cost.
C6_NegativeIsRejected ==
    (Called /\ HasNegative) =>
        /\ ~last.optimized
        /\ last.dialog = "critical"
        /\ last.total_cost = NoItem

\* the number of supplies and of demands that were entered
SupplyLen == Cardinality({i \in 1..rowCount(offre_table) : HasText(offre_table[i][1])})
DemandLen == Cardinality({j \in 1..columnCount(demande_table) : HasText(demande_table[1][j])})

\* C7 as stated: a solve on a cost table with more rows than supplies entered,
\* or more columns than demands entered, fails without running the optimizer:
\* the missing entries are not filled in.
C7_ShapeMismatchIsRejected ==
    (Called /\ (SupplyLen # NSources \/ DemandLen # NDest)) =>
        /\ ~last.optimized
        /\ last.dialog = "critical"

\* C8 as stated: whenever the most recent solve failed, the window shows no
\* allocation and no total cost.
C8_FailureShowsNoResult ==
    last.dialog # "none" =>
        /\ result_label = LabelPrefix
        /\ \A i \in 1..rowCount(result_table), j \in 1..columnCount(result_table) :
              result_table[i][j] = NoItem

\* what a call must do according to the three tables alone
Expected ==
    IF \E c \in {cost_table[i][j] : i \in 1..NSources, j \in 1..NDest}
               \cup {offre_table[i][1] : i \in 1..NSources}
               \cup {demande_table[1][j] : j \in 1..NDest} :
            HasText(c) /\ c[1] \notin DOMAIN FloatTable
    THEN [status |-> "ValueError", optimized |-> FALSE, dialog |-> "critical",
          total_cost |-> NoItem]
    ELSE CHOOSE r \in
            {IF P = {}
             THEN [status |-> "INFEASIBLE", optimized |-> TRUE, dialog |-> "warning",
                   total_cost |-> NoItem]
             ELSE [status |-> "OPTIMAL", optimized |-> TRUE, dialog |-> "none",
                   total_cost |-> Item(Format2f(Least(P)))] : P \in {PlanCosts}} : TRUE

====
